---- MODULE Spec2Model ----
(***************************************************************************)
(* A model of the obfuskey library: the numeric primitives (_math.py), the *)
(* base codec and the prime generator (utils.py) and the key transform     *)
(* Obfuskey (_obfuskey.py).                                                *)
(*                                                                         *)
(* A Python string is a sequence of one-character strings.  A method that  *)
(* returns or raises is an operator yielding a record with the field err   *)
(* ("none" when it returns) next to the returned value; the actions below  *)
(* apply these operators to the instance and record the outcome.           *)
(***************************************************************************)
EXTENDS Integers, Sequences, FiniteSets, TLC

VARIABLES
    alphabet,           \* Obfuskey.__alphabet
    key_length,         \* Obfuskey.__key_length
    maximum_value,      \* Obfuskey.__maximum_value
    multiplier,         \* Obfuskey.__multiplier: None or <<m>>
    prime_multiplier,   \* Obfuskey.__prime_multiplier, a decimal (see Dec)
    op,                 \* the last call made
    arg,                \* its integer argument (0 when it takes none)
    argkey,             \* its string argument (<<>> when it takes none)
    ret,                \* its outcome: [err, key, num]
    used,               \* the multiplier the last call read: None or <<m>>
    src,                \* <<v>> when argkey is the string the previous call made from v
    init_multiplier,    \* the constructor's multiplier argument: None or <<m>>
    last_seed,          \* the argument of the latest set_prime_multiplier (NoSeed: none yet)
    first_used,         \* the first multiplier read since construction / the last reseed
    first_key,          \* <<v, key>> of the first get_key(v), v > 0, since then
    again               \* "same" / "differs": the last call was get_key(v) for the v of
                        \* first_key and returned that key / another one; else "first"

VARIABLES
    schema_definition,  \* ObfusbitSchema._schema_definition: the raw schema (None: no schema)
    total_bits_val,     \* ObfusbitSchema._total_bits_val
    max_bits_val,       \* ObfusbitSchema._max_bits_val
    field_info,         \* ObfusbitSchema._field_info: name -> [bits, shift]
    field_names_set,    \* ObfusbitSchema._field_names_set
    obfusbit,           \* the Obfusbit: None or <<[obfuskey, total_bits, max_bits]>>, where
                        \* obfuskey tells whether _obfuskey is the Obfuskey above
    call,               \* the last schema / Obfusbit call and its arguments
    out,                \* its outcome: [err, ...] and the returned value
    from_values         \* <<values>> when the data just unpacked is what the call before
                        \* packed from values, unpacked the way it was packed

VARIABLES
    threads             \* the callers that share the Obfuskey: for each its position in the
                        \* call it makes, the call, its local seed, and what it returned

keyvars == <<alphabet, key_length, maximum_value, multiplier, prime_multiplier,
             op, arg, argkey, ret, used, src, init_multiplier, last_seed, first_used,
             first_key, again>>

bitvars == <<schema_definition, total_bits_val, max_bits_val, field_info,
             field_names_set, obfusbit, call, out, from_values>>

vars == <<keyvars, bitvars, threads>>

(***************************************************************************)
(* Bounds of the model.                                                    *)
(***************************************************************************)
MaxBase == 3          \* alphabets have 1..MaxBase symbols
MaxKeyLength == 2     \* key lengths 1..MaxKeyLength, and the default KEY_LENGTH
MaxValue == 5         \* get_key arguments -1..MaxValue (and maximum_value, +1)
MaxKeyInput == 1      \* get_value / decode arguments: every string up to this length
MaxEncode == 30       \* encode arguments -1..MaxEncode
MaxMultiplier == 3    \* constructor multipliers: the odd integers in -1..MaxMultiplier
LoopFuel == 32        \* iterations after which a loop that made no progress is cut
MaxFields == 2        \* schemas have up to MaxFields items
MaxBits == 2          \* a field has 1..MaxBits bits
MaxMath == 50         \* _math.py functions are applied to -MaxMath..MaxMath
MaxMutations == 2     \* the caller mutates a schema's list up to MaxMutations times
MaxModulus == 9       \* where every key is tried, there are at most MaxModulus keys
NumThreads == 2       \* the Obfuskey is shared by NumThreads callers, one call each

(***************************************************************************)
(* Program constants (_constants.py).                                      *)
(***************************************************************************)
KEY_LENGTH == 6

None == <<>>

\* A decimal number ip.frac, the type of a seed; frac is the fractional part in
\* limbs of LIMB_DIGITS decimal digits, most significant first.
Dec(ip, frac) == [ip |-> ip, frac |-> frac]

LIMB_DIGITS == 5

LIMB == 100000

\* Decimal(1.618033988749894848), the exact value of the float literal:
\* 1.6180339887498949025257388711906969547271728515625
PRIME_MULTIPLIER ==
    Dec(1, <<61803, 39887, 49894, 90252, 57388, 71190, 69695, 47271, 72851,
             56250>>)

\* Decimal(1.75), the seed of the library's own tests.
SEED_1_75 == Dec(1, <<75000>>)

NoSeed == Dec(0, <<>>)

\* The precision of Python's default decimal context.
DECIMAL_PREC == 28

(***************************************************************************)
(* Strings.                                                                *)
(***************************************************************************)
AllSymbols == <<"a", "b", "c", "d", "e">>
Foreign == "z"

RECURSIVE Reverse(_)
Reverse(s) == IF s = <<>> THEN <<>> ELSE Append(Reverse(Tail(s)), Head(s))

Range(s) == {s[i] : i \in 1..Len(s)}

Min(a, b) == IF a < b THEN a ELSE b

RECURSIVE Pow(_, _)
Pow(b, e) == IF e = 0 THEN 1 ELSE b * Pow(b, e - 1)

\* alphabet.index(c)
Index(alpha, c) == (CHOOSE i \in 1..Len(alpha) : alpha[i] = c) - 1

\* str.rjust(width, fill): pads on the left, never truncates
rjust(s, width, fill) ==
    IF Len(s) >= width THEN s
    ELSE [i \in 1..(width - Len(s)) |-> fill] \o s

(***************************************************************************)
(* Numeric primitives (_math.py).                                          *)
(***************************************************************************)
RECURSIVE gcd(_, _)
gcd(a, b) == IF b = 0 THEN (IF a < 0 THEN -a ELSE a) ELSE gcd(b, a % b)

\* math.isqrt, by bisection on lo <= isqrt(n) < hi
RECURSIVE isqrt_between(_, _, _)
isqrt_between(n, lo, hi) ==
    IF hi - lo <= 1 THEN lo
    ELSE LET mid == lo + (hi - lo) \div 2
         IN IF mid <= n \div mid THEN isqrt_between(n, mid, hi)
            ELSE isqrt_between(n, lo, mid)

isqrt(n) == IF n < 2 THEN n ELSE isqrt_between(n, 1, n)

\* s, d with n - 1 = 2^s * d, d odd
RECURSIVE factor_loop(_, _)
factor_loop(s, d) ==
    IF d % 2 = 0 THEN factor_loop(s + 1, d \div 2) ELSE [s |-> s, d |-> d]

factor(n) == factor_loop(0, n - 1)

\* (a * b) % n for 0 <= a, b < n, by doubling, so that no product exceeds 2n
RECURSIVE mulmod(_, _, _)
mulmod(a, b, n) ==
    IF b = 0 THEN 0
    ELSE LET h == mulmod(a, b \div 2, n)
             dbl == (h + h) % n
         IN IF b % 2 = 1 THEN (dbl + a) % n ELSE dbl

\* pow(base, e, n), e >= 0
RECURSIVE powmod(_, _, _)
powmod(base, e, n) ==
    IF e = 0 THEN 1 % n
    ELSE LET h == powmod(base, e \div 2, n)
             sq == mulmod(h, h, n)
         IN IF e % 2 = 1 THEN mulmod(base % n, sq, n) ELSE sq

\* the squaring loop of one Miller-Rabin round: `rounds` iterations left
RECURSIVE strong_pseudoprime_loop(_, _, _)
strong_pseudoprime_loop(n, x, rounds) ==
    IF rounds <= 0 THEN FALSE
    ELSE LET y == mulmod(x, x, n)
         IN IF y = n - 1 THEN TRUE
            ELSE IF y = 1 THEN FALSE
            ELSE strong_pseudoprime_loop(n, y, rounds - 1)

strong_pseudoprime(n, base) ==
    IF n % 2 = 0 THEN FALSE
    ELSE IF n = 1 THEN FALSE
    ELSE LET f == factor(n)
             x == powmod(base, f.d, n)
         IN IF x = 1 \/ x = n - 1 THEN TRUE
            ELSE strong_pseudoprime_loop(n, x, f.s - 1)

small_strong_pseudoprime(n) ==
    \A base \in {2, 13, 23, 1662803} : strong_pseudoprime(n, base)

\* is_prime without the list of the primes that divide 510510
is_prime_noshortcut(n) ==
    IF n = 2 THEN TRUE
    ELSE IF n < 2 \/ n % 2 = 0 THEN FALSE
    ELSE IF gcd(n, 510510) > 1 THEN FALSE
    ELSE IF n < 2000000
    THEN \A i \in 3..isqrt(n) : i % 2 = 1 => n % i # 0
    ELSE \A base \in {2, 13, 23, 1662803} : strong_pseudoprime(n, base)

trial_division(n) ==
    IF n <= 1 THEN FALSE
    ELSE IF n = 2 THEN TRUE
    ELSE \A i \in 3..isqrt(n) : i % 2 = 1 => n % i # 0

is_prime(n) ==
    IF n = 2 THEN TRUE
    ELSE IF n < 2 \/ n % 2 = 0 THEN FALSE
    ELSE IF gcd(n, 510510) > 1 THEN n \in {3, 5, 7, 11, 13, 17}
    ELSE IF n < 2000000 THEN trial_division(n)
    ELSE small_strong_pseudoprime(n)

\* the increment table with the step from 19 mod 30 taken as 10: it skips 23 mod 30
gap_skips == <<1, 6, 5, 4, 3, 2, 1, 4, 3, 2, 1, 2, 1, 4, 3, 2, 1, 2, 1, 10, 3, 2, 1,
               6, 5, 4, 3, 2, 1, 2>>

\* the mod-30 increment table; gap[r + 1] is the step from a number = r mod 30
gap == <<1, 6, 5, 4, 3, 2, 1, 4, 3, 2, 1, 2, 1, 4, 3, 2, 1, 2, 1, 4, 3, 2, 1,
         6, 5, 4, 3, 2, 1, 2>>

RECURSIVE next_prime_search(_)
next_prime_search(n) ==
    IF is_prime(n) THEN n ELSE next_prime_search(n + gap[(n % 30) + 1])

\* next_prime that accepts n itself: the smallest prime >= n
next_prime_ge(n) ==
    IF n < 2 THEN 2
    ELSE IF n < 5 THEN <<2, 3, 5>>[n - 2 + 1]
    ELSE next_prime_search(n + 1 - (n % 2))

\* next_prime for an n of at most 512 bits (every integer of the model)
next_prime(n) ==
    IF n < 2 THEN 2
    ELSE IF n < 5 THEN <<3, 5, 5>>[n - 2 + 1]
    ELSE LET n1 == n + 1 + (n % 2)
             n2 == IF n1 % 3 = 0 \/ n1 % 5 = 0 THEN n1 + gap[(n1 % 30) + 1] ELSE n1
         IN next_prime_search(n2)

\* the extended Euclidean algorithm on remainders r0, r1 with r = t * base (mod m)
RECURSIVE modinv_euclid(_, _, _, _)
modinv_euclid(r0, r1, t0, t1) ==
    IF r1 = 0 THEN [g |-> r0, t |-> t0]
    ELSE modinv_euclid(r1, r0 % r1, t1, t0 - (r0 \div r1) * t1)

\* pow(base, -1, mod): the inverse in 0..mod-1, or ValueError when there is none
modinv(base, mod) ==
    LET e == modinv_euclid(mod, base % mod, 0, 1)
    IN IF e.g = 1 THEN [err |-> "none", num |-> e.t % mod]
       ELSE [err |-> "ValueError", num |-> 0]

(***************************************************************************)
(* Base codec and prime generation (utils.py).                             *)
(***************************************************************************)
\* sum(alphabet.index(c) * base**i for i, c in enumerate(value[::-1]))
RECURSIVE decode_sum(_, _, _)
decode_sum(rev, alpha, i) ==
    IF i > Len(rev) THEN 0
    ELSE Index(alpha, rev[i]) * Pow(Len(alpha), i - 1) + decode_sum(rev, alpha, i + 1)

decode(value, alpha) ==
    IF \E c \in Range(value) : c \notin Range(alpha)
    THEN [err |-> "UnknownKeyError", num |-> 0]
    ELSE IF Len(value) = 1
    THEN [err |-> "none", num |-> Index(alpha, value[1])]
    ELSE [err |-> "none", num |-> decode_sum(Reverse(value), alpha, 1)]

\* the while loop of encode; key holds the symbols least significant first.
\* With base >= 2 a value below 2^31 reaches 0 within 31 iterations; a loop
\* that is still running after LoopFuel iterations never ends ("NoReturn").
RECURSIVE encode_loop(_, _, _, _)
encode_loop(value, alpha, key, fuel) ==
    IF value > 0
    THEN IF fuel = 0 THEN [err |-> "NoReturn", key |-> <<>>]
         ELSE encode_loop(value \div Len(alpha), alpha,
                          Append(key, alpha[(value % Len(alpha)) + 1]), fuel - 1)
    ELSE [err |-> "none", key |-> Reverse(key)]

encode(value, alpha) ==
    IF value < 0 THEN [err |-> "NegativeValueError", key |-> <<>>]
    ELSE IF value < Len(alpha) THEN [err |-> "none", key |-> <<alpha[value + 1]>>]
    ELSE encode_loop(value, alpha, <<>>, LoopFuel)

\* x * 0.frac by long multiplication: the carry out of the limbs i.. of the
\* fraction into the limb before them (exact while x * LIMB < 2^31)
RECURSIVE mul_carry(_, _, _)
mul_carry(x, frac, i) ==
    IF i > Len(frac) THEN 0
    ELSE (x * frac[i] + mul_carry(x, frac, i + 1)) \div LIMB

\* limb i of the fractional part of x * 0.frac
mul_limb(x, frac, i) == (x * frac[i] + mul_carry(x, frac, i + 1)) % LIMB

\* decimal digit j (1 = tenths) of the fractional part of x * 0.frac
mul_digit(x, frac, j) ==
    LET l == mul_limb(x, frac, ((j - 1) \div LIMB_DIGITS) + 1)
        r == (j - 1) % LIMB_DIGITS
    IN (l \div Pow(10, LIMB_DIGITS - 1 - r)) % 10

RECURSIVE num_digits(_)
num_digits(n) == IF n < 10 THEN 1 ELSE 1 + num_digits(n \div 10)

\* int(x * d) for an integer x >= 0 and a decimal d >= 0: Decimal rounds the
\* product half-even to DECIMAL_PREC significant digits and int() truncates it,
\* so the result is one above the exact integer part when the kept fractional
\* digits are all 9 and the first dropped one is 5 or more
int_times(x, d) ==
    LET whole == x * d.ip + mul_carry(x, d.frac, 1)
        ndigits == LIMB_DIGITS * Len(d.frac)
        zeros == Cardinality({j \in 1..ndigits :
                     \A k \in 1..j : mul_digit(x, d.frac, k) = 0})
        keep == IF whole > 0 THEN DECIMAL_PREC - num_digits(whole)
                ELSE zeros + DECIMAL_PREC
    IN IF keep >= ndigits THEN whole
       ELSE IF /\ keep >= 1
               /\ \A j \in 1..keep : mul_digit(x, d.frac, j) = 9
               /\ mul_digit(x, d.frac, keep + 1) >= 5
            THEN whole + 1
       ELSE whole

generate_prime(alpha, length, seed) ==
    next_prime(int_times(Pow(Len(alpha), length) - 1, seed))

(***************************************************************************)
(* The key transform (_obfuskey.py).  The operators read the instance.     *)
(***************************************************************************)
\* Obfuskey.__init__ accepts the alphabet and the multiplier (None or <<m>>)
init_accepts(alpha, m) ==
    /\ Cardinality(Range(alpha)) = Len(alpha)
    /\ ~(m # None /\ m[1] % 2 = 0)

\* __generate_multiplier
generate_multiplier == generate_prime(alphabet, key_length, prime_multiplier)

\* `if self.__multiplier is None: self.__generate_multiplier()`, then the field
materialized == IF multiplier = None THEN <<generate_multiplier>> ELSE multiplier

\* the key of value 0: "".rjust(key_length, alphabet[0])
zero_key == rjust(<<>>, key_length, alphabet[1])

\* get_key without the left padding
get_key_nopad(value) ==
    IF value < 0
    THEN [err |-> "NegativeValueError", key |-> <<>>, mult |-> multiplier, used |-> None]
    ELSE IF value > maximum_value
    THEN [err |-> "MaximumValueError", key |-> <<>>, mult |-> multiplier, used |-> None]
    ELSE IF value = 0
    THEN [err |-> "none", key |-> zero_key, mult |-> multiplier, used |-> None]
    ELSE LET m == materialized
             e == encode((value * m[1]) % (maximum_value + 1), alphabet)
         IN [err |-> e.err, key |-> e.key, mult |-> m, used |-> m]

\* get_key that rejects maximum_value itself
get_key_offbyone(value) ==
    IF value < 0
    THEN [err |-> "NegativeValueError", key |-> <<>>, mult |-> multiplier, used |-> None]
    ELSE IF value >= maximum_value
    THEN [err |-> "MaximumValueError", key |-> <<>>, mult |-> multiplier, used |-> None]
    ELSE IF value = 0
    THEN [err |-> "none", key |-> zero_key, mult |-> multiplier, used |-> None]
    ELSE LET m == materialized
             e == encode((value * m[1]) % (maximum_value + 1), alphabet)
         IN [err |-> e.err,
             key |-> IF e.err = "none" THEN rjust(e.key, key_length, alphabet[1])
                     ELSE <<>>,
             mult |-> m, used |-> m]

\* get_key that computes with 1 while no multiplier is cached, and caches afterwards
get_key_stale(value) ==
    IF value < 0
    THEN [err |-> "NegativeValueError", key |-> <<>>, mult |-> multiplier, used |-> None]
    ELSE IF value > maximum_value
    THEN [err |-> "MaximumValueError", key |-> <<>>, mult |-> multiplier, used |-> None]
    ELSE IF value = 0
    THEN [err |-> "none", key |-> zero_key, mult |-> multiplier, used |-> None]
    ELSE LET m == IF multiplier = None THEN <<1>> ELSE multiplier
             e == encode((value * m[1]) % (maximum_value + 1), alphabet)
         IN [err |-> e.err,
             key |-> IF e.err = "none" THEN rjust(e.key, key_length, alphabet[1])
                     ELSE <<>>,
             mult |-> materialized, used |-> m]

\* get_key: err, the key, the field __multiplier afterwards, the multiplier read
get_key(value) ==
    IF value < 0
    THEN [err |-> "NegativeValueError", key |-> <<>>, mult |-> multiplier, used |-> None]
    ELSE IF value > maximum_value
    THEN [err |-> "MaximumValueError", key |-> <<>>, mult |-> multiplier, used |-> None]
    ELSE IF value = 0
    THEN [err |-> "none", key |-> zero_key, mult |-> multiplier, used |-> None]
    ELSE LET m == materialized
             masked == (value * m[1]) % (maximum_value + 1)
             e == encode(masked, alphabet)
         IN [err |-> e.err,
             key |-> IF e.err = "none" THEN rjust(e.key, key_length, alphabet[1])
                     ELSE <<>>,
             mult |-> m, used |-> m]

\* get_value without the shortcut for the all-zero key
get_value_nozero(key) ==
    IF \E c \in Range(key) : c \notin Range(alphabet)
    THEN [err |-> "UnknownKeyError", num |-> 0, mult |-> multiplier, used |-> None]
    ELSE IF Len(key) # key_length
    THEN [err |-> "KeyLengthError", num |-> 0, mult |-> multiplier, used |-> None]
    ELSE LET m == materialized
             d == decode(key, alphabet)
             max_p1 == maximum_value + 1
             inv == modinv(m[1], max_p1)
         IN IF inv.err # "none"
            THEN [err |-> inv.err, num |-> 0, mult |-> m, used |-> m]
            ELSE [err |-> "none", num |-> (d.num * inv.num) % max_p1,
                  mult |-> m, used |-> m]

\* get_value that checks the length before the symbols
get_value_lenfirst(key) ==
    IF Len(key) # key_length
    THEN [err |-> "KeyLengthError", num |-> 0, mult |-> multiplier, used |-> None]
    ELSE IF \E c \in Range(key) : c \notin Range(alphabet)
    THEN [err |-> "UnknownKeyError", num |-> 0, mult |-> multiplier, used |-> None]
    ELSE IF key = zero_key
    THEN [err |-> "none", num |-> 0, mult |-> multiplier, used |-> None]
    ELSE LET m == materialized
             d == decode(key, alphabet)
             max_p1 == maximum_value + 1
             inv == modinv(m[1], max_p1)
         IN IF inv.err # "none"
            THEN [err |-> inv.err, num |-> 0, mult |-> m, used |-> m]
            ELSE [err |-> "none", num |-> (d.num * inv.num) % max_p1,
                  mult |-> m, used |-> m]

\* get_value that multiplies by the multiplier, not by its modular inverse
get_value_noinv(key) ==
    IF \E c \in Range(key) : c \notin Range(alphabet)
    THEN [err |-> "UnknownKeyError", num |-> 0, mult |-> multiplier, used |-> None]
    ELSE IF Len(key) # key_length
    THEN [err |-> "KeyLengthError", num |-> 0, mult |-> multiplier, used |-> None]
    ELSE IF key = zero_key
    THEN [err |-> "none", num |-> 0, mult |-> multiplier, used |-> None]
    ELSE LET m == materialized
             d == decode(key, alphabet)
             max_p1 == maximum_value + 1
         IN [err |-> "none", num |-> (d.num * m[1]) % max_p1, mult |-> m, used |-> m]

\* get_value: err, the value, the field __multiplier afterwards, the multiplier read
get_value(key) ==
    IF \E c \in Range(key) : c \notin Range(alphabet)
    THEN [err |-> "UnknownKeyError", num |-> 0, mult |-> multiplier, used |-> None]
    ELSE IF Len(key) # key_length
    THEN [err |-> "KeyLengthError", num |-> 0, mult |-> multiplier, used |-> None]
    ELSE IF key = zero_key
    THEN [err |-> "none", num |-> 0, mult |-> multiplier, used |-> None]
    ELSE LET m == materialized
             d == decode(key, alphabet)
             max_p1 == maximum_value + 1
             inv == modinv(m[1], max_p1)
         IN IF inv.err # "none"
            THEN [err |-> inv.err, num |-> 0, mult |-> m, used |-> m]
            ELSE [err |-> "none", num |-> (d.num * inv.num) % max_p1,
                  mult |-> m, used |-> m]

(***************************************************************************)
(* Inputs.                                                                 *)
(***************************************************************************)
\* the first B symbols in order and in reverse order, and one with a duplicate
AlphabetArgs ==
    {SubSeq(AllSymbols, 1, B) : B \in 1..MaxBase}
        \cup {Reverse(SubSeq(AllSymbols, 1, MaxBase))}
        \cup {<<"a", "a">>}

KeyLengthArgs == (1..MaxKeyLength) \cup {KEY_LENGTH}

MultiplierArgs == {None} \cup {<<m>> : m \in (-1)..MaxMultiplier}

Seeds == {PRIME_MULTIPLIER, SEED_1_75}

ValueArgs == ((-1)..Min(maximum_value + 1, MaxValue)) \cup {maximum_value, maximum_value + 1}

\* the first and the last symbol of the alphabet, and one that is not in it
KeySymbols == {alphabet[1], alphabet[Len(alphabet)], Foreign}

Strings == UNION {[1..n -> KeySymbols] : n \in 0..MaxKeyInput}

\* every short string; and the string the previous call returned, passed back
\* intact, with a symbol appended, or with its last symbol replaced by a foreign one
KeyArgs(producer) ==
    Strings \cup
        (IF op = producer /\ ret.err = "none"
         THEN {ret.key, Append(ret.key, alphabet[1]),
               [ret.key EXCEPT ![Len(ret.key)] = Foreign]}
         ELSE {})

\* <<v>> when key is what the previous call, a `producer`, made from v
SourceOf(producer, key) ==
    IF op = producer /\ ret.err = "none" /\ key = ret.key THEN <<arg>> ELSE <<>>

\* no schema and no Obfusbit constructed
NoObfusbit ==
    /\ schema_definition = None
    /\ total_bits_val = 0
    /\ max_bits_val = 0
    /\ field_info = None
    /\ field_names_set = {}
    /\ obfusbit = None
    /\ call = [op |-> "none"]
    /\ out = [err |-> "none"]
    /\ from_values = None

\* the callers that share the instance
Threads == 1..NumThreads

\* a caller that has not made its call
IdleThread ==
    [pc |-> "idle", op |-> "none", seed |-> NoSeed, derived |-> FALSE,
     ret |-> [err |-> "none", key |-> <<>>, num |-> 0, mult |-> None]]

(***************************************************************************)
(* The state machine of one Obfuskey instance.                             *)
(***************************************************************************)
Init ==
    /\ NoObfusbit
    /\ threads = [t \in Threads |-> IdleThread]
    /\ alphabet \in AlphabetArgs
    /\ key_length \in KeyLengthArgs
    /\ multiplier \in MultiplierArgs
    /\ init_accepts(alphabet, multiplier)
    /\ maximum_value = Pow(Len(alphabet), key_length) - 1
    /\ prime_multiplier = PRIME_MULTIPLIER
    /\ op = "init"
    /\ arg = 0
    /\ argkey = <<>>
    /\ ret = [err |-> "none", key |-> <<>>, num |-> 0]
    /\ used = None
    /\ src = <<>>
    /\ init_multiplier = multiplier
    /\ last_seed = NoSeed
    /\ first_used = None
    /\ first_key = None
    /\ again = "first"

\* TRUE while __multiplier is the constructor's argument
supplied == init_multiplier # None /\ last_seed = NoSeed

\* the first multiplier read of the epoch, once there is one
FirstUsed(u) == IF first_used = None THEN u ELSE first_used

\* obfuskey.multiplier
Call_multiplier ==
    LET m == materialized
    IN /\ multiplier' = m
       /\ op' = "multiplier"
       /\ arg' = 0
       /\ argkey' = <<>>
       /\ ret' = [err |-> "none", key |-> <<>>, num |-> m[1]]
       /\ used' = m
       /\ src' = <<>>
       /\ first_used' = FirstUsed(m)
       /\ again' = "first"
       /\ UNCHANGED first_key
       /\ UNCHANGED <<alphabet, key_length, maximum_value, prime_multiplier,
                      init_multiplier, last_seed>>
       /\ UNCHANGED <<bitvars, threads>>

\* set_prime_multiplier that keeps a multiplier the constructor was given
Call_set_prime_multiplier_keep(seed) ==
    /\ prime_multiplier' = seed
    /\ multiplier' = IF supplied THEN multiplier ELSE None
    /\ op' = "set_prime_multiplier"
    /\ arg' = 0
    /\ argkey' = <<>>
    /\ last_seed' = seed
    /\ ret' = [err |-> "none", key |-> <<>>, num |-> 0]
    /\ used' = None
    /\ src' = <<>>
    /\ first_used' = None
    /\ first_key' = None
    /\ again' = "first"
    /\ UNCHANGED <<alphabet, key_length, maximum_value, init_multiplier>>
    /\ UNCHANGED <<bitvars, threads>>

\* obfuskey.set_prime_multiplier(seed)
Call_set_prime_multiplier(seed) ==
    /\ prime_multiplier' = seed
    /\ multiplier' = None
    /\ op' = "set_prime_multiplier"
    /\ arg' = 0
    /\ argkey' = <<>>
    /\ last_seed' = seed
    /\ ret' = [err |-> "none", key |-> <<>>, num |-> 0]
    /\ used' = None
    /\ src' = <<>>
    /\ first_used' = None
    /\ first_key' = None
    /\ again' = "first"
    /\ UNCHANGED <<alphabet, key_length, maximum_value, init_multiplier>>
    /\ UNCHANGED <<bitvars, threads>>

\* obfuskey.get_key(value)
Call_get_key(value) ==
    LET r == get_key(value)
    IN /\ multiplier' = r.mult
       /\ op' = "get_key"
       /\ arg' = value
       /\ argkey' = <<>>
       /\ ret' = [err |-> r.err, key |-> r.key, num |-> 0]
       /\ used' = r.used
       /\ src' = <<>>
       /\ first_used' = FirstUsed(r.used)
       /\ first_key' = IF first_key = None /\ r.err = "none" /\ value > 0
                       THEN <<value, r.key>>
                       ELSE first_key
       /\ again' = IF first_key # None /\ first_key[1] = value
                   THEN (IF r.err = "none" /\ r.key = first_key[2] THEN "same"
                         ELSE "differs")
                   ELSE "first"
       /\ UNCHANGED <<alphabet, key_length, maximum_value, prime_multiplier,
                      init_multiplier, last_seed>>
       /\ UNCHANGED <<bitvars, threads>>

\* obfuskey.get_value(key)
Call_get_value(key) ==
    LET r == get_value(key)
    IN /\ multiplier' = r.mult
       /\ op' = "get_value"
       /\ arg' = 0
       /\ argkey' = key
       /\ ret' = [err |-> r.err, key |-> <<>>, num |-> r.num]
       /\ used' = r.used
       /\ src' = SourceOf("get_key", key)
       /\ first_used' = FirstUsed(r.used)
       /\ again' = "first"
       /\ UNCHANGED first_key
       /\ UNCHANGED <<alphabet, key_length, maximum_value, prime_multiplier,
                      init_multiplier, last_seed>>
       /\ UNCHANGED <<bitvars, threads>>

Next ==
    \/ Call_multiplier
    \/ \E seed \in Seeds : Call_set_prime_multiplier(seed)
    \/ \E value \in ValueArgs : Call_get_key(value)
    \/ \E key \in KeyArgs("get_key") : Call_get_value(key)

Spec == Init /\ [][Next]_vars

(***************************************************************************)
(* One Obfuskey of at least two symbols and of at most MaxModulus keys,    *)
(* asked for the key of every value in range and for the value of every    *)
(* string of key_length symbols.                                           *)
(***************************************************************************)
InitInverse ==
    /\ Init
    /\ Len(alphabet) >= 2
    /\ key_length <= MaxKeyLength
    /\ maximum_value + 1 <= MaxModulus

\* every string of key_length symbols of the alphabet
AllKeys == [1..key_length -> Range(alphabet)]

AllValues == 0..maximum_value

NextInverse ==
    \/ Call_multiplier
    \/ \E seed \in Seeds : Call_set_prime_multiplier(seed)
    \/ \E value \in AllValues : Call_get_key(value)
    \/ \E key \in AllKeys : Call_get_value(key)

SpecInverse == InitInverse /\ [][NextInverse]_vars

(***************************************************************************)
(* One Obfuskey constructed without a multiplier and shared by the callers *)
(* of Threads.  The code takes no lock, so a call is a sequence of steps,  *)
(* one per read or write of a field another caller can write              *)
(* (__multiplier, __prime_multiplier), and the steps of the callers        *)
(* interleave.  A caller makes one call:                                   *)
(*   multiplier, get_key, get_value:                                       *)
(*     check   `if self.__multiplier is None:`                             *)
(*     derive  the arguments of generate_prime are read                    *)
(*     store   `self.__multiplier = generate_prime(...)`                   *)
(*     use     the statement that reads self.__multiplier and returns      *)
(*   set_prime_multiplier:                                                 *)
(*     set_seed  `self.__prime_multiplier = multiplier`                    *)
(*     clear     `self.__multiplier = None`                                *)
(***************************************************************************)
ThreadReaders == {"multiplier", "get_key", "get_value"}

\* the arguments of the callers: a value and a key that are not the zero ones
ThreadValue == 1

ThreadKey == rjust(<<alphabet[2]>>, key_length, alphabet[1])

\* the last statement of multiplier, get_key and get_value, given the field
\* __multiplier it reads (None raises TypeError from `*` and from pow)
use_multiplier(o, m) ==
    IF o = "multiplier"
    THEN [err |-> "none", key |-> <<>>, num |-> 0, mult |-> m]
    ELSE IF m = None
    THEN [err |-> "TypeError", key |-> <<>>, num |-> 0, mult |-> m]
    ELSE IF o = "get_key"
    THEN LET e == encode((ThreadValue * m[1]) % (maximum_value + 1), alphabet)
         IN [err |-> e.err,
             key |-> IF e.err = "none" THEN rjust(e.key, key_length, alphabet[1])
                     ELSE <<>>,
             num |-> 0, mult |-> m]
    ELSE LET d == decode(ThreadKey, alphabet)
             max_p1 == maximum_value + 1
             inv == modinv(m[1], max_p1)
         IN IF inv.err # "none"
            THEN [err |-> inv.err, key |-> <<>>, num |-> 0, mult |-> m]
            ELSE [err |-> "none", key |-> <<>>, num |-> (d.num * inv.num) % max_p1,
                  mult |-> m]

\* the number of times __generate_multiplier has run
derivations == Cardinality({t \in Threads : threads[t].derived})

\* every call that was started has returned
AllReturned == \A t \in Threads : threads[t].pc \in {"idle", "done"}

threadrest == <<alphabet, key_length, maximum_value, op, arg, argkey, ret, used, src,
                init_multiplier, last_seed, first_used, first_key, again>>

\* caller t enters multiplier, get_key(ThreadValue) or get_value(ThreadKey)
Thread_call(t, o) ==
    /\ threads[t].pc = "idle"
    /\ threads' = [threads EXCEPT ![t].pc = "check", ![t].op = o]
    /\ UNCHANGED <<multiplier, prime_multiplier, threadrest, bitvars>>

\* caller t enters set_prime_multiplier(seed)
Thread_call_set_prime_multiplier(t, seed) ==
    /\ threads[t].pc = "idle"
    /\ threads' = [threads EXCEPT ![t].pc = "set_seed",
                                  ![t].op = "set_prime_multiplier", ![t].seed = seed]
    /\ UNCHANGED <<multiplier, prime_multiplier, threadrest, bitvars>>

\* `if self.__multiplier is None:`
Thread_check(t) ==
    /\ threads[t].pc = "check"
    /\ threads' = [threads EXCEPT ![t].pc = IF multiplier = None THEN "derive" ELSE "use"]
    /\ UNCHANGED <<multiplier, prime_multiplier, threadrest, bitvars>>

\* __generate_multiplier reads the arguments of generate_prime
Thread_derive(t) ==
    /\ threads[t].pc = "derive"
    /\ threads' = [threads EXCEPT ![t].pc = "store", ![t].seed = prime_multiplier]
    /\ UNCHANGED <<multiplier, prime_multiplier, threadrest, bitvars>>

\* __generate_multiplier assigns the prime to self.__multiplier
Thread_store(t) ==
    /\ threads[t].pc = "store"
    /\ multiplier' = <<generate_prime(alphabet, key_length, threads[t].seed)>>
    /\ threads' = [threads EXCEPT ![t].pc = "use", ![t].derived = TRUE]
    /\ UNCHANGED <<prime_multiplier, threadrest, bitvars>>

\* the statement that reads self.__multiplier, and the return
Thread_use(t) ==
    /\ threads[t].pc = "use"
    /\ threads' = [threads EXCEPT ![t].pc = "done",
                                  ![t].ret = use_multiplier(threads[t].op, multiplier)]
    /\ UNCHANGED <<multiplier, prime_multiplier, threadrest, bitvars>>

\* `self.__prime_multiplier = multiplier`
Thread_set_seed(t) ==
    /\ threads[t].pc = "set_seed"
    /\ prime_multiplier' = threads[t].seed
    /\ threads' = [threads EXCEPT ![t].pc = "clear"]
    /\ UNCHANGED <<multiplier, threadrest, bitvars>>

\* `self.__multiplier = None`, and the return
Thread_clear(t) ==
    /\ threads[t].pc = "clear"
    /\ multiplier' = None
    /\ threads' = [threads EXCEPT ![t].pc = "done"]
    /\ UNCHANGED <<prime_multiplier, threadrest, bitvars>>

InitThreads ==
    /\ Init
    /\ Len(alphabet) >= 2
    /\ key_length <= MaxKeyLength
    /\ multiplier = None

NextThreads ==
    \/ \E t \in Threads, o \in ThreadReaders : Thread_call(t, o)
    \/ \E t \in Threads, seed \in Seeds : Thread_call_set_prime_multiplier(t, seed)
    \/ \E t \in Threads : Thread_check(t)
    \/ \E t \in Threads : Thread_derive(t)
    \/ \E t \in Threads : Thread_store(t)
    \/ \E t \in Threads : Thread_use(t)
    \/ \E t \in Threads : Thread_set_seed(t)
    \/ \E t \in Threads : Thread_clear(t)

SpecThreads == InitThreads /\ [][NextThreads]_vars

(***************************************************************************)
(* The base codec on its own: encode and decode applied to the alphabet of *)
(* a default-constructed instance.                                         *)
(***************************************************************************)
InitCodec ==
    /\ Init
    /\ key_length = KEY_LENGTH
    /\ multiplier = None

EncodeArgs == (-1)..MaxEncode

\* utils.encode(value, alphabet)
Call_encode(value) ==
    LET r == encode(value, alphabet)
    IN /\ op' = "encode"
       /\ arg' = value
       /\ argkey' = <<>>
       /\ ret' = [err |-> r.err, key |-> r.key, num |-> 0]
       /\ src' = <<>>
       /\ UNCHANGED <<alphabet, key_length, maximum_value, multiplier,
                      prime_multiplier, used, init_multiplier, last_seed, first_used,
                      first_key, again>>
       /\ UNCHANGED <<bitvars, threads>>

\* utils.decode(value, alphabet)
Call_decode(value) ==
    LET r == decode(value, alphabet)
    IN /\ op' = "decode"
       /\ arg' = 0
       /\ argkey' = value
       /\ ret' = [err |-> r.err, key |-> <<>>, num |-> r.num]
       /\ src' = SourceOf("encode", value)
       /\ UNCHANGED <<alphabet, key_length, maximum_value, multiplier,
                      prime_multiplier, used, init_multiplier, last_seed, first_used,
                      first_key, again>>
       /\ UNCHANGED <<bitvars, threads>>

NextCodec ==
    \/ \E value \in EncodeArgs : Call_encode(value)
    \/ \E value \in KeyArgs("encode") : Call_decode(value)

SpecCodec == InitCodec /\ [][NextCodec]_vars

(***************************************************************************)
(* The functions of _math.py on their own, applied to integers.            *)
(***************************************************************************)
InitMath == InitCodec /\ alphabet = <<"a", "b">>

\* some integers beyond MaxMath: the ones of the test suite and a strong
\* pseudoprime to base 2
MathLandmarks == {100, 1000, 2047, 104723}

MathArgs == ((-MaxMath)..MaxMath) \cup MathLandmarks

\* for is_prime also the end of the range it leaves to trial division: the
\* largest prime below 2,000,000 and a composite of the test suite
IsPrimeArgs == MathArgs \cup {1999993, 1999999}

\* what a call of a function of _math.py leaves unchanged
mathrest == <<alphabet, key_length, maximum_value, multiplier, prime_multiplier,
              argkey, used, src, init_multiplier, last_seed, first_used, first_key,
              again>>

\* _math.next_prime(n)
Call_next_prime(n) ==
    /\ op' = "next_prime"
    /\ arg' = n
    /\ ret' = [err |-> "none", key |-> <<>>, num |-> next_prime(n)]
    /\ UNCHANGED <<mathrest, bitvars, threads>>

\* _math.is_prime(n)
Call_is_prime(n) ==
    /\ op' = "is_prime"
    /\ arg' = n
    /\ ret' = [err |-> "none", key |-> <<>>, num |-> 0, bool |-> is_prime(n)]
    /\ UNCHANGED <<mathrest, bitvars, threads>>

\* _math.trial_division(n)
Call_trial_division(n) ==
    /\ op' = "trial_division"
    /\ arg' = n
    /\ ret' = [err |-> "none", key |-> <<>>, num |-> 0, bool |-> trial_division(n)]
    /\ UNCHANGED <<mathrest, bitvars, threads>>

\* _math.small_strong_pseudoprime(n), n >= 0
Call_small_strong_pseudoprime(n) ==
    /\ n >= 0
    /\ op' = "small_strong_pseudoprime"
    /\ arg' = n
    /\ ret' = [err |-> "none", key |-> <<>>, num |-> 0,
               bool |-> small_strong_pseudoprime(n)]
    /\ UNCHANGED <<mathrest, bitvars, threads>>

NextMath ==
    \/ \E n \in MathArgs : Call_next_prime(n)
    \/ \E n \in IsPrimeArgs : Call_is_prime(n)
    \/ \E n \in MathArgs : Call_trial_division(n)
    \/ \E n \in MathArgs : Call_small_strong_pseudoprime(n)

SpecMath == InitMath /\ [][NextMath]_vars

(***************************************************************************)
(* ObfusbitSchema (_obfusbit_schema.py).                                   *)
(*                                                                         *)
(* A raw schema is [islist, items]; an item tells whether it is a dict,    *)
(* which of the keys 'name' and 'bits' it has, and for each of the two     *)
(* values whether it has the required type.  A dict of the program is a    *)
(* function on a set of strings.                                           *)
(***************************************************************************)
Item(isdict, has_name, has_bits, name_isstr, name, bits_isint, bits) ==
    [isdict |-> isdict, has_name |-> has_name, has_bits |-> has_bits,
     name_isstr |-> name_isstr, name |-> name, bits_isint |-> bits_isint, bits |-> bits]

Field(name, bits) == Item(TRUE, TRUE, TRUE, TRUE, name, TRUE, bits)

List(items) == [islist |-> TRUE, items |-> items]

NotAList == [islist |-> FALSE, items |-> <<>>]

SchemaError(what, index) == [err |-> "SchemaValidationError", what |-> what, index |-> index]

NoError == [err |-> "none", what |-> "", index |-> -1]

\* _validate_schema_item(item, index, seen_names)
validate_schema_item(item, index, seen_names) ==
    IF ~item.isdict THEN SchemaError("not_dict", index)
    ELSE IF ~item.has_name THEN SchemaError("missing_name", index)
    ELSE IF ~item.has_bits THEN SchemaError("missing_bits", index)
    ELSE IF ~item.name_isstr THEN SchemaError("name_not_str", index)
    ELSE IF ~item.bits_isint THEN SchemaError("bits_not_int", index)
    ELSE IF item.bits <= 0 THEN SchemaError("bits_not_positive", index)
    ELSE IF item.name \in seen_names THEN SchemaError("duplicate_name", index)
    ELSE NoError

\* the loop of _validate_schema from the item at position i (index i - 1) on
RECURSIVE validate_schema_loop(_, _, _)
validate_schema_loop(items, i, seen_names) ==
    IF i > Len(items) THEN NoError
    ELSE LET r == validate_schema_item(items[i], i - 1, seen_names)
         IN IF r.err # "none" THEN r
            ELSE validate_schema_loop(items, i + 1, seen_names \cup {items[i].name})

\* the same checks, reported for the last offending item instead of the first
RECURSIVE validate_schema_last_loop(_, _, _, _)
validate_schema_last_loop(items, i, seen_names, found) ==
    IF i > Len(items) THEN found
    ELSE LET r == validate_schema_item(items[i], i - 1, seen_names)
         IN validate_schema_last_loop(items, i + 1, seen_names \cup {items[i].name},
                                      IF r.err # "none" THEN r ELSE found)

validate_schema_last(schema) ==
    IF ~schema.islist THEN SchemaError("not_list", -1)
    ELSE IF schema.items = <<>> THEN SchemaError("empty", -1)
    ELSE validate_schema_last_loop(schema.items, 1, {}, NoError)

\* _validate_schema(schema)
validate_schema(schema) ==
    IF ~schema.islist THEN SchemaError("not_list", -1)
    ELSE IF schema.items = <<>> THEN SchemaError("empty", -1)
    ELSE validate_schema_loop(schema.items, 1, {})

\* the loop of _calculate_field_info over reversed(raw_schema): i runs from the
\* last item down to the first
RECURSIVE calculate_field_info_loop(_, _, _, _)
calculate_field_info_loop(items, i, info, current_shift) ==
    IF i < 1 THEN info
    ELSE calculate_field_info_loop(
             items, i - 1,
             (items[i].name :> [bits |-> items[i].bits, shift |-> current_shift]) @@ info,
             current_shift + items[i].bits)

\* the same loop over the items in declaration order
RECURSIVE calculate_field_info_forward_loop(_, _, _, _)
calculate_field_info_forward_loop(items, i, info, current_shift) ==
    IF i > Len(items) THEN info
    ELSE calculate_field_info_forward_loop(
             items, i + 1,
             (items[i].name :> [bits |-> items[i].bits, shift |-> current_shift]) @@ info,
             current_shift + items[i].bits)

calculate_field_info_forward(items) ==
    calculate_field_info_forward_loop(items, 1, <<>>, 0)

\* _calculate_field_info(raw_schema)
calculate_field_info(items) ==
    calculate_field_info_loop(items, Len(items), <<>>, 0)

\* sum(item["bits"] for item in raw_schema)
RECURSIVE sum_bits(_, _)
sum_bits(items, i) ==
    IF i > Len(items) THEN 0 ELSE items[i].bits + sum_bits(items, i + 1)

\* ObfusbitSchema(raw_schema): the error, or the fields of the new object
ObfusbitSchema(raw_schema) ==
    LET v == validate_schema(raw_schema)
        items == raw_schema.items
        total == sum_bits(items, 1)
    IN IF v.err # "none"
       THEN [err |-> v, definition |-> None, total_bits |-> 0, max_bits |-> 0,
             field_info |-> None, field_names |-> {}]
       ELSE [err |-> v,
             definition |-> items,
             total_bits |-> total,
             max_bits |-> Pow(2, total) - 1,
             field_info |-> calculate_field_info(items),
             field_names |-> {items[i].name : i \in 1..Len(items)}]

FieldNames == <<"x", "y", "z", "u">>

Names == Range(SubSeq(FieldNames, 1, MaxFields))

\* the well-formed items, and the item x:1 with each defect
ItemArgs ==
    {Field(n, b) : n \in Names, b \in 1..MaxBits}
        \cup {Item(FALSE, FALSE, FALSE, FALSE, "", FALSE, 0),
              Item(TRUE, FALSE, TRUE, FALSE, "", TRUE, 1),
              Item(TRUE, TRUE, FALSE, TRUE, "x", FALSE, 0),
              Item(TRUE, FALSE, FALSE, FALSE, "", FALSE, 0),
              Item(TRUE, TRUE, TRUE, FALSE, "", TRUE, 1),
              Item(TRUE, TRUE, TRUE, TRUE, "x", FALSE, 0),
              Item(TRUE, TRUE, TRUE, FALSE, "", FALSE, 0),
              Item(TRUE, TRUE, TRUE, TRUE, "x", TRUE, 0),
              Item(TRUE, TRUE, TRUE, TRUE, "x", TRUE, -1)}

RawSchemaArgs ==
    {NotAList} \cup {List(items) : items \in UNION {[1..n -> ItemArgs] : n \in 0..MaxFields}}

\* schema = ObfusbitSchema(raw_schema)
New_ObfusbitSchema(raw_schema) ==
    LET r == ObfusbitSchema(raw_schema)
    IN /\ call.op = "none"
       /\ call' = [op |-> "ObfusbitSchema", raw_schema |-> raw_schema]
       /\ out' = r.err
       /\ schema_definition' = r.definition
       /\ total_bits_val' = r.total_bits
       /\ max_bits_val' = r.max_bits
       /\ field_info' = r.field_info
       /\ field_names_set' = r.field_names
       /\ UNCHANGED <<obfusbit, from_values>>
       /\ UNCHANGED <<keyvars, threads>>

\* the schema on its own, next to a default Obfuskey that is not used
InitSchema ==
    /\ Init
    /\ alphabet = <<"a", "b">>
    /\ key_length = 1
    /\ multiplier = None

NextSchema == \E raw_schema \in RawSchemaArgs : New_ObfusbitSchema(raw_schema)

SpecSchema == InitSchema /\ [][NextSchema]_vars

(***************************************************************************)
(* Obfusbit (_obfusbit.py), on the schema and the Obfuskey above.          *)
(*                                                                         *)
(* A value that may be an int, a str or bytes is [t, v] with t its type;   *)
(* bytes are a sequence of numbers 0..255.                                 *)
(***************************************************************************)
IntData(n) == [t |-> "int", v |-> <<n>>]

StrData(key) == [t |-> "str", v |-> key]

BytesData(b) == [t |-> "bytes", v |-> b]

\* a | b for a, b >= 0
RECURSIVE BitOr(_, _)
BitOr(a, b) ==
    IF a = 0 THEN b
    ELSE IF b = 0 THEN a
    ELSE (IF a % 2 = 1 \/ b % 2 = 1 THEN 1 ELSE 0) + 2 * BitOr(a \div 2, b \div 2)

\* a & m for m >= 0 and any a (two's complement)
RECURSIVE BitAnd(_, _)
BitAnd(a, m) ==
    IF m = 0 THEN 0
    ELSE (IF a % 2 = 1 /\ m % 2 = 1 THEN 1 ELSE 0) + 2 * BitAnd(a \div 2, m \div 2)

\* ObfusbitSchema.get_field_info(name)
get_field_info(name) == field_info[name]

\* 0 <= value < (1 << bits)
fits(value, bits) == 0 <= value /\ value < Pow(2, bits)

\* ObfusbitSchema.validate_values(values).  The overflow error names the first
\* out-of-range field in the order of the dict, which a function does not
\* have: names is the set of the out-of-range fields.
validate_values(values) ==
    LET input_field_names == DOMAIN values
        missing_fields == field_names_set \ input_field_names
        extra_fields == input_field_names \ field_names_set
        over == {n \in input_field_names : ~fits(values[n], get_field_info(n).bits)}
    IN IF missing_fields # {}
       THEN [err |-> "ValueError", what |-> "missing_fields", names |-> missing_fields]
       ELSE IF extra_fields # {}
       THEN [err |-> "ValueError", what |-> "unexpected_fields", names |-> extra_fields]
       ELSE IF over # {}
       THEN [err |-> "BitOverflowError", what |-> "overflow", names |-> over]
       ELSE [err |-> "none", what |-> "", names |-> {}]

\* Obfusbit(...) that also rejects a schema that needs exactly maximum_value
Obfusbit_ge(raw_schema, obfuskey) ==
    LET sch == ObfusbitSchema(raw_schema)
    IN IF sch.err.err # "none"
       THEN [err |-> sch.err, schema |-> sch, obfusbit |-> None]
       ELSE IF obfuskey /\ sch.max_bits >= maximum_value
       THEN [err |-> [err |-> "MaximumValueError", what |-> "", index |-> -1],
             schema |-> ObfusbitSchema(NotAList), obfusbit |-> None]
       ELSE [err |-> NoError, schema |-> sch,
             obfusbit |-> <<[obfuskey |-> obfuskey, total_bits |-> sch.total_bits,
                             max_bits |-> sch.max_bits]>>]

\* Obfusbit(schema, obfuskey = ...) for a schema given as a list: the error, or
\* the fields of the schema and of the Obfusbit
Obfusbit(raw_schema, obfuskey) ==
    LET sch == ObfusbitSchema(raw_schema)
    IN IF sch.err.err # "none"
       THEN [err |-> sch.err, schema |-> sch, obfusbit |-> None]
       ELSE IF obfuskey /\ sch.max_bits > maximum_value
       THEN [err |-> [err |-> "MaximumValueError", what |-> "", index |-> -1],
             schema |-> ObfusbitSchema(NotAList), obfusbit |-> None]
       ELSE [err |-> NoError, schema |-> sch,
             obfusbit |-> <<[obfuskey |-> obfuskey, total_bits |-> sch.total_bits,
                             max_bits |-> sch.max_bits]>>]

\* the loop of pack without the shift
RECURSIVE pack_loop_noshift(_, _, _)
pack_loop_noshift(values, i, packed_int) ==
    IF i > Len(schema_definition) THEN [err |-> "none", what |-> "", names |-> {},
                                        num |-> packed_int]
    ELSE LET item_name == schema_definition[i].name
             info == get_field_info(item_name)
         IN IF item_name \notin DOMAIN values
            THEN [err |-> "ValueError", what |-> "value_not_provided",
                  names |-> {item_name}, num |-> 0]
            ELSE IF ~fits(values[item_name], info.bits)
            THEN [err |-> "BitOverflowError", what |-> "overflow",
                  names |-> {item_name}, num |-> 0]
            ELSE pack_loop_noshift(values, i + 1, BitOr(packed_int, values[item_name]))

\* the loop of pack from the item at position i on
RECURSIVE pack_loop(_, _, _)
pack_loop(values, i, packed_int) ==
    IF i > Len(schema_definition) THEN [err |-> "none", what |-> "", names |-> {},
                                        num |-> packed_int]
    ELSE LET item_name == schema_definition[i].name
             info == get_field_info(item_name)
         IN IF item_name \notin DOMAIN values
            THEN [err |-> "ValueError", what |-> "value_not_provided",
                  names |-> {item_name}, num |-> 0]
            ELSE IF ~fits(values[item_name], info.bits)
            THEN [err |-> "BitOverflowError", what |-> "overflow",
                  names |-> {item_name}, num |-> 0]
            ELSE pack_loop(values, i + 1,
                           BitOr(packed_int, values[item_name] * Pow(2, info.shift)))

\* pack that returns the packed integer when there is no Obfuskey to obfuscate it
pack_fallback(values, obfuscate) ==
    LET p == pack_loop(values, 1, 0)
        k == get_key(p.num)
    IN IF p.err # "none"
       THEN [err |-> p.err, what |-> p.what, names |-> p.names, data |-> None,
             mult |-> multiplier]
       ELSE IF ~obfuscate \/ ~obfusbit[1].obfuskey
       THEN [err |-> "none", what |-> "", names |-> {}, data |-> IntData(p.num),
             mult |-> multiplier]
       ELSE IF p.num > maximum_value
       THEN [err |-> "MaximumValueError", what |-> "", names |-> {}, data |-> None,
             mult |-> multiplier]
       ELSE [err |-> k.err, what |-> "", names |-> {},
             data |-> IF k.err = "none" THEN StrData(k.key) ELSE None,
             mult |-> k.mult]

\* Obfusbit.pack(values, obfuscate = ...): err, the data returned, and the field
\* __multiplier of the Obfuskey afterwards
pack(values, obfuscate) ==
    LET p == pack_loop(values, 1, 0)
        k == get_key(p.num)
    IN IF p.err # "none"
       THEN [err |-> p.err, what |-> p.what, names |-> p.names, data |-> None,
             mult |-> multiplier]
       ELSE IF ~obfuscate
       THEN [err |-> "none", what |-> "", names |-> {}, data |-> IntData(p.num),
             mult |-> multiplier]
       ELSE IF ~obfusbit[1].obfuskey
       THEN [err |-> "ValueError", what |-> "no_obfuskey", names |-> {}, data |-> None,
             mult |-> multiplier]
       ELSE IF p.num > maximum_value
       THEN [err |-> "MaximumValueError", what |-> "", names |-> {}, data |-> None,
             mult |-> multiplier]
       ELSE [err |-> k.err, what |-> "", names |-> {},
             data |-> IF k.err = "none" THEN StrData(k.key) ELSE None,
             mult |-> k.mult]

\* the loop of unpack without the mask
unpack_fields_nomask(packed_int) ==
    [name \in {schema_definition[i].name : i \in 1..Len(schema_definition)} |->
        packed_int \div Pow(2, get_field_info(name).shift)]

\* the loop of unpack: every field cut out of packed_int
unpack_fields(packed_int) ==
    [name \in {schema_definition[i].name : i \in 1..Len(schema_definition)} |->
        LET info == get_field_info(name)
            mask == Pow(2, info.bits) - 1
        IN BitAnd(packed_int \div Pow(2, info.shift), mask)]

\* unpack that checks the type of packed_data before it looks for the Obfuskey
unpack_typefirst(packed_data, obfuscated) ==
    LET g == get_value(packed_data.v)
    IN IF obfuscated
       THEN IF packed_data.t # "str"
            THEN [err |-> "TypeError", what |-> "", dict |-> None, mult |-> multiplier]
            ELSE IF ~obfusbit[1].obfuskey
            THEN [err |-> "ValueError", what |-> "no_obfuskey", dict |-> None,
                  mult |-> multiplier]
            ELSE IF g.err # "none"
            THEN [err |-> g.err, what |-> "", dict |-> None, mult |-> g.mult]
            ELSE [err |-> "none", what |-> "", dict |-> unpack_fields(g.num),
                  mult |-> g.mult]
       ELSE IF packed_data.t # "int"
            THEN [err |-> "TypeError", what |-> "", dict |-> None, mult |-> multiplier]
            ELSE [err |-> "none", what |-> "", dict |-> unpack_fields(packed_data.v[1]),
                  mult |-> multiplier]

\* Obfusbit.unpack(packed_data, obfuscated = ...)
unpack(packed_data, obfuscated) ==
    LET g == get_value(packed_data.v)
    IN IF obfuscated
       THEN IF ~obfusbit[1].obfuskey
            THEN [err |-> "ValueError", what |-> "no_obfuskey", dict |-> None,
                  mult |-> multiplier]
            ELSE IF packed_data.t # "str"
            THEN [err |-> "TypeError", what |-> "", dict |-> None, mult |-> multiplier]
            ELSE IF g.err # "none"
            THEN [err |-> g.err, what |-> "", dict |-> None, mult |-> g.mult]
            ELSE [err |-> "none", what |-> "", dict |-> unpack_fields(g.num),
                  mult |-> g.mult]
       ELSE IF packed_data.t # "int"
            THEN [err |-> "TypeError", what |-> "", dict |-> None, mult |-> multiplier]
            ELSE [err |-> "none", what |-> "", dict |-> unpack_fields(packed_data.v[1]),
                  mult |-> multiplier]

\* Obfusbit._get_required_byte_length()
get_required_byte_length == (total_bits_val + 7) \div 8

\* int.to_bytes(length, "little"), for n >= 0 that fits
RECURSIVE to_bytes_little(_, _)
to_bytes_little(n, length) ==
    IF length = 0 THEN <<>> ELSE <<n % 256>> \o to_bytes_little(n \div 256, length - 1)

\* int.from_bytes(b, "little")
RECURSIVE from_bytes_little(_)
from_bytes_little(b) ==
    IF b = <<>> THEN 0 ELSE b[1] + 256 * from_bytes_little(Tail(b))

\* Obfusbit._int_to_bytes_internal(packed_int, byteorder)
int_to_bytes_internal(packed_int, byteorder) ==
    LET byte_length == get_required_byte_length
    IN IF ~(0 <= packed_int /\ packed_int <= max_bits_val)
       THEN [err |-> "ValueError", data |-> None]
       ELSE IF packed_int >= Pow(256, byte_length)
       THEN [err |-> "OverflowError", data |-> None]
       ELSE [err |-> "none",
             data |-> BytesData(IF byteorder = "little"
                                THEN to_bytes_little(packed_int, byte_length)
                                ELSE Reverse(to_bytes_little(packed_int, byte_length)))]

\* Obfusbit._bytes_to_int_internal(byte_data, byteorder)
bytes_to_int_internal(byte_data, byteorder) ==
    IF byte_data.t # "bytes" THEN [err |-> "TypeError", num |-> 0]
    ELSE IF Len(byte_data.v) # get_required_byte_length
    THEN [err |-> "ValueError", num |-> 0]
    ELSE [err |-> "none",
          num |-> IF byteorder = "little" THEN from_bytes_little(byte_data.v)
                  ELSE from_bytes_little(Reverse(byte_data.v))]

\* Obfusbit.pack_bytes(values, byteorder)
pack_bytes(values, byteorder) ==
    LET p == pack(values, FALSE)
        b == int_to_bytes_internal(p.data.v[1], byteorder)
    IN IF p.err # "none" THEN p
       ELSE [err |-> b.err, what |-> "", names |-> {}, data |-> b.data,
             mult |-> multiplier]

\* Obfusbit.unpack_bytes(byte_data, byteorder)
unpack_bytes(byte_data, byteorder) ==
    LET n == bytes_to_int_internal(byte_data, byteorder)
    IN IF n.err # "none"
       THEN [err |-> n.err, what |-> "", dict |-> None, mult |-> multiplier]
       ELSE unpack(IntData(n.num), FALSE)

\* the schemas handed to Obfusbit: 1..MaxFields fields named in either order,
\* widths cycling through 1..MaxBits; the schema of the test suite; no field
BitsPattern(n, k) == [i \in 1..n |-> ((i + k) % MaxBits) + 1]

NamesInOrder(n, rev) ==
    IF rev THEN Reverse(SubSeq(FieldNames, 1, n)) ELSE SubSeq(FieldNames, 1, n)

FieldSchemas ==
    {List([i \in 1..n |-> Field(NamesInOrder(n, rev)[i], BitsPattern(n, k)[i])]) :
        n \in 1..MaxFields, rev \in BOOLEAN, k \in 0..(MaxBits - 1)}

SIMPLE_SCHEMA_DEF == List(<<Field("id", 10), Field("type", 2), Field("flag", 1)>>)

SimpleValues == [n \in {"id", "type", "flag"} |->
                    IF n = "id" THEN 100 ELSE IF n = "type" THEN 2 ELSE 1]

ObfusbitSchemaArgs == FieldSchemas \cup {SIMPLE_SCHEMA_DEF, List(<<>>)}

\* a key that is no field of any schema
Extra == "extra_field"

\* the values tried for a key: both ends of the range of the field and the
\* value above it, for a field of one bit also the value below it; for the
\* schema of the test suite the values of the test suite
FieldValues(k) ==
    IF k = Extra THEN {5}
    ELSE IF k \in DOMAIN SimpleValues THEN {SimpleValues[k]}
    ELSE LET bits == get_field_info(k).bits
         IN {0, Pow(2, bits) - 1, Pow(2, bits)} \cup (IF bits = 1 THEN {-1} ELSE {})

\* every dict that maps some of the keys to one of their values
RECURSIVE ValuesOver(_)
ValuesOver(keys) ==
    IF keys = {} THEN {<<>>}
    ELSE LET k == CHOOSE k \in keys : TRUE
             rest == ValuesOver(keys \ {k})
         IN rest \cup {(k :> v) @@ f : v \in FieldValues(k), f \in rest}

ValuesArgs_pack == ValuesOver(field_names_set \cup {Extra})

\* the dicts pack accepts among them
AcceptedArgs == {values \in ValuesArgs_pack : pack_loop(values, 1, 0).err = "none"}

\* the data the call before returned, if it packed
HeldData ==
    IF call.op \in {"pack", "pack_bytes"} /\ out.err = "none" THEN {out.data} ELSE {}

UnpackArgs ==
    {IntData(-1), IntData(0), IntData(max_bits_val), IntData(max_bits_val + 1),
     IntData(-max_bits_val - 3), IntData(2 * max_bits_val + 4),
     StrData(<<alphabet[1]>>)} \cup HeldData

UnpackBytesArgs ==
    {BytesData(<<>>), BytesData(<<255>>), BytesData(<<255, 255>>), StrData(<<>>)}
        \cup HeldData

ByteOrders == {"big", "little"}

\* how the call before packed: to an int, to a key, or to bytes in an order
HowPacked ==
    IF call.op = "pack" THEN (IF call.obfuscate THEN "key" ELSE "int")
    ELSE call.byteorder

\* the values the data came from, when it is what the call before returned and
\* is unpacked the way it was packed
FromValues(data, how) ==
    IF data \in HeldData /\ HowPacked = how THEN <<call.values>> ELSE None

keyrest == <<alphabet, key_length, maximum_value, prime_multiplier, op, arg, argkey,
             ret, used, src, init_multiplier, last_seed, first_used, first_key, again>>

schemavars == <<schema_definition, total_bits_val, max_bits_val, field_info,
                field_names_set>>

\* Obfusbit(raw_schema), Obfusbit(raw_schema, obfuskey = the Obfuskey)
New_Obfusbit(raw_schema, obfuskey) ==
    LET r == Obfusbit(raw_schema, obfuskey)
    IN /\ call.op = "none"
       /\ call' = [op |-> "Obfusbit", raw_schema |-> raw_schema, obfuskey |-> obfuskey]
       /\ out' = r.err
       /\ schema_definition' = r.schema.definition
       /\ total_bits_val' = r.schema.total_bits
       /\ max_bits_val' = r.schema.max_bits
       /\ field_info' = r.schema.field_info
       /\ field_names_set' = r.schema.field_names
       /\ obfusbit' = r.obfusbit
       /\ UNCHANGED from_values
       /\ UNCHANGED <<keyvars, threads>>

\* obfusbit.pack(values, obfuscate = ...)
Call_pack(values, obfuscate) ==
    /\ obfusbit # None
    /\ \E r \in {pack(values, obfuscate)} :
       /\ call' = [op |-> "pack", values |-> values, obfuscate |-> obfuscate]
       /\ out' = [err |-> r.err, what |-> r.what, names |-> r.names, data |-> r.data]
       /\ multiplier' = r.mult
       /\ from_values' = None
       /\ UNCHANGED <<schemavars, obfusbit, keyrest, threads>>

\* obfusbit.unpack(packed_data, obfuscated = ...)
Call_unpack(packed_data, obfuscated) ==
    /\ obfusbit # None
    /\ \E r \in {unpack(packed_data, obfuscated)} :
       /\ call' = [op |-> "unpack", data |-> packed_data, obfuscated |-> obfuscated]
       /\ out' = [err |-> r.err, what |-> r.what, dict |-> r.dict]
       /\ multiplier' = r.mult
       /\ from_values' = FromValues(packed_data, IF obfuscated THEN "key" ELSE "int")
       /\ UNCHANGED <<schemavars, obfusbit, keyrest, threads>>

\* obfusbit.pack_bytes(values, byteorder)
Call_pack_bytes(values, byteorder) ==
    /\ obfusbit # None
    /\ \E r \in {pack_bytes(values, byteorder)} :
       /\ call' = [op |-> "pack_bytes", values |-> values, byteorder |-> byteorder]
       /\ out' = [err |-> r.err, what |-> r.what, names |-> r.names, data |-> r.data]
       /\ from_values' = None
       /\ UNCHANGED <<schemavars, obfusbit, keyvars, threads>>

\* obfusbit.unpack_bytes(byte_data, byteorder)
Call_unpack_bytes(byte_data, byteorder) ==
    /\ obfusbit # None
    /\ \E r \in {unpack_bytes(byte_data, byteorder)} :
       /\ call' = [op |-> "unpack_bytes", data |-> byte_data, byteorder |-> byteorder]
       /\ out' = [err |-> r.err, what |-> r.what, dict |-> r.dict]
       /\ from_values' = FromValues(byte_data, byteorder)
       /\ UNCHANGED <<schemavars, obfusbit, keyvars, threads>>

\* schema.validate_values(values)
Call_validate_values(values) ==
    /\ obfusbit # None
    /\ \E r \in {validate_values(values)} :
       /\ call' = [op |-> "validate_values", values |-> values]
       /\ out' = [err |-> r.err, what |-> r.what, names |-> r.names, data |-> None]
       /\ from_values' = None
       /\ UNCHANGED <<schemavars, obfusbit, keyvars, threads>>

(***************************************************************************)
(* An Obfusbit without an Obfuskey.                                        *)
(***************************************************************************)
InitBit == InitSchema

NextBit ==
    \/ \E raw_schema \in ObfusbitSchemaArgs : New_Obfusbit(raw_schema, FALSE)
    \/ \E values \in ValuesArgs_pack, obfuscate \in BOOLEAN : Call_pack(values, obfuscate)
    \/ \E packed_data \in UnpackArgs, obfuscated \in BOOLEAN :
           Call_unpack(packed_data, obfuscated)
    \/ \E values \in ValuesArgs_pack, byteorder \in ByteOrders :
           Call_pack_bytes(values, byteorder)
    \/ \E byte_data \in UnpackBytesArgs, byteorder \in ByteOrders :
           Call_unpack_bytes(byte_data, byteorder)
    \/ \E values \in ValuesArgs_pack : Call_validate_values(values)

SpecBit == InitBit /\ [][NextBit]_vars

(***************************************************************************)
(* A schema and the caller that holds the list it was constructed from:    *)
(* __init__ stores the list it is given and the definition property        *)
(* returns that list, so the caller's list and _schema_definition are one  *)
(* object.  The caller appends to it, pops from it and assigns an item's   *)
(* 'bits'.  An empty list is not told apart from no schema, so the caller  *)
(* leaves one item.                                                        *)
(***************************************************************************)
\* how many times the caller has mutated the list
mutations == IF call.op \in {"append", "pop", "set_bits"} THEN call.n ELSE 0

\* the items the caller appends: the one of the test suite, with any width
AppendArgs == {Field("new", b) : b \in 1..MaxBits}

\* what a mutation of the list leaves unchanged
aliasrest == <<total_bits_val, max_bits_val, field_info, field_names_set, obfusbit,
               from_values>>

\* schema.definition.append(item)
Caller_append(item) ==
    /\ schema_definition # None
    /\ mutations < MaxMutations
    /\ schema_definition' = Append(schema_definition, item)
    /\ call' = [op |-> "append", n |-> mutations + 1]
    /\ out' = [err |-> "none"]
    /\ UNCHANGED <<aliasrest, keyvars, threads>>

\* schema.definition.pop()
Caller_pop ==
    /\ schema_definition # None
    /\ Len(schema_definition) >= 2
    /\ mutations < MaxMutations
    /\ schema_definition' = SubSeq(schema_definition, 1, Len(schema_definition) - 1)
    /\ call' = [op |-> "pop", n |-> mutations + 1]
    /\ out' = [err |-> "none"]
    /\ UNCHANGED <<aliasrest, keyvars, threads>>

\* schema.definition[i]["bits"] = bits
Caller_set_bits(i, bits) ==
    /\ schema_definition # None
    /\ i \in 1..Len(schema_definition)
    /\ mutations < MaxMutations
    /\ schema_definition' = [schema_definition EXCEPT ![i].bits = bits]
    /\ call' = [op |-> "set_bits", n |-> mutations + 1]
    /\ out' = [err |-> "none"]
    /\ UNCHANGED <<aliasrest, keyvars, threads>>

InitAlias == InitSchema

NextAlias ==
    \/ \E raw_schema \in ObfusbitSchemaArgs : New_ObfusbitSchema(raw_schema)
    \/ \E item \in AppendArgs : Caller_append(item)
    \/ Caller_pop
    \/ \E i \in 1..(MaxFields + MaxMutations), bits \in 1..MaxBits : Caller_set_bits(i, bits)

SpecAlias == InitAlias /\ [][NextAlias]_vars

(***************************************************************************)
(* An Obfusbit with or without an Obfuskey whose multiplier is derived:    *)
(* packing to keys and back.                                               *)
(***************************************************************************)
InitBitKey ==
    /\ Init
    /\ Len(alphabet) >= 2
    /\ alphabet[1] = "a"
    /\ key_length <= MaxKeyLength
    /\ multiplier = None

NextBitKey ==
    \/ \E raw_schema \in ObfusbitSchemaArgs, obfuskey \in BOOLEAN :
           New_Obfusbit(raw_schema, obfuskey)
    \/ \E values \in AcceptedArgs, obfuscate \in BOOLEAN : Call_pack(values, obfuscate)
    \/ \E packed_data \in UnpackArgs, obfuscated \in BOOLEAN :
           Call_unpack(packed_data, obfuscated)

SpecBitKey == InitBitKey /\ [][NextBitKey]_vars

(***************************************************************************)
(* Reference notions the claims are stated with; none of them is used by   *)
(* the model of the code above.                                            *)
(***************************************************************************)
IsPrimeRef(n) == n > 1 /\ \A d \in 2..(n - 1) : n % d # 0

CoprimeRef(a, b) == \A d \in 2..Min(a, b) : ~(a % d = 0 /\ b % d = 0)

\* m is the smallest prime strictly greater than t
SmallestPrimeAbove(t, m) ==
    /\ m > t
    /\ IsPrimeRef(m)
    /\ \A k \in (t + 1)..(m - 1) : ~IsPrimeRef(k)

\* t = floor(x * seed), from rational bounds lo <= seed <= hi on the seed:
\* 1.75 = 175000 / 100000 and 161803 / 100000 < 1.6180339887... < 161804 / 100000
IsFloorOfProduct(x, seed, t) ==
    LET lo == IF seed = SEED_1_75 THEN 175000 ELSE 161803
        hi == IF seed = SEED_1_75 THEN 175000 ELSE 161804
    IN /\ t * 100000 <= x * hi
       /\ x * lo < (t + 1) * 100000

\* the number a string denotes, most significant symbol first (Horner)
RECURSIVE KeyNumberRef(_, _)
KeyNumberRef(key, alpha) ==
    IF key = <<>> THEN 0
    ELSE KeyNumberRef(SubSeq(key, 1, Len(key) - 1), alpha) * Len(alpha)
             + Index(alpha, key[Len(key)])

\* key_length copies of the first symbol
ZeroKeyRef == [i \in 1..key_length |-> alphabet[1]]

HasForeignSymbol(key) == \E i \in 1..Len(key) : key[i] \notin Range(alphabet)

(***************************************************************************)
(* The claims.                                                             *)
(***************************************************************************)

\* C1: on an Obfuskey built without a multiplier and still on the default
\* seed, get_value applied to the key get_key made from v (0 <= v <=
\* maximum_value) returns v.
C1_RoundTrip ==
    (op = "get_value" /\ src # <<>> /\ init_multiplier = None
        /\ prime_multiplier = PRIME_MULTIPLIER)
    => (ret.err = "none" /\ ret.num = src[1])

\* C2: the multiplier derived from the default seed is a prime strictly
\* greater than maximum_value and coprime to the modulus maximum_value + 1.
C2_DerivedMultiplierCoprime ==
    (init_multiplier = None /\ prime_multiplier = PRIME_MULTIPLIER /\ multiplier # None)
    => /\ IsPrimeRef(multiplier[1])
       /\ multiplier[1] > maximum_value
       /\ CoprimeRef(multiplier[1], maximum_value + 1)

C4_ZeroKey ==
    /\ (op = "get_key" /\ arg = 0) => (ret.err = "none" /\ ret.key = ZeroKeyRef)
    /\ (op = "get_value" /\ argkey = ZeroKeyRef) => (ret.err = "none" /\ ret.num = 0)

\* the all-zero key of get_key(0) passed back, where no inverse of the multiplier exists
C4_Witness ==
    /\ op = "get_value"
    /\ src = <<0>>
    /\ argkey = ZeroKeyRef
    /\ ret.num = 0
    /\ init_multiplier # None
    /\ ~CoprimeRef(init_multiplier[1], maximum_value + 1)

C6_GetValueErrors ==
    op = "get_value"
    => /\ HasForeignSymbol(argkey) => ret.err = "UnknownKeyError"
       /\ (~HasForeignSymbol(argkey) /\ Len(argkey) # key_length)
              => ret.err = "KeyLengthError"
       /\ (~HasForeignSymbol(argkey) /\ Len(argkey) = key_length)
              => ret.err \notin {"UnknownKeyError", "KeyLengthError"}

\* a key of the wrong length with a foreign symbol: the symbol check wins
C6_Witness ==
    /\ op = "get_value"
    /\ HasForeignSymbol(argkey)
    /\ Len(argkey) # key_length
    /\ ret.err = "UnknownKeyError"

C8_ReseedInvalidates ==
    /\ op = "set_prime_multiplier"
           => (multiplier = None /\ last_seed # NoSeed /\ prime_multiplier = last_seed)
    /\ (last_seed # NoSeed /\ used # None)
           => (used[1] = generate_prime(alphabet, key_length, last_seed)
               /\ multiplier = used)
    /\ (last_seed # NoSeed /\ op = "multiplier") => ret.num = used[1]

\* get_key computed with the prime of seed 1.75 on an instance constructed with a multiplier
C8_Witness ==
    /\ init_multiplier # None
    /\ last_seed = SEED_1_75
    /\ op = "get_key"
    /\ arg > 0
    /\ used # None
    /\ used # init_multiplier

\* C9: while set_prime_multiplier is not called, every read of the multiplier
\* returns the multiplier first read, get_key(v) returns the key it returned
\* the first time, and no call changes the multiplier a read would return,
\* whether or not the multiplier was materialized before the call.
C9_StableBetweenReseeds ==
    /\ [](used # None => used = first_used)
    /\ []((op = "multiplier") => (ret.num = first_used[1]))
    /\ [](again # "differs")
    /\ [][op' # "set_prime_multiplier"
            => (IF multiplier' = None
                THEN <<generate_prime(alphabet', key_length', prime_multiplier')>>
                ELSE multiplier') = materialized]_vars

\* get_key(v) asked again, with other calls in between, on a multiplier that
\* the first call derived and the later call found cached
C9_Witness ==
    /\ again = "same"
    /\ op = "get_key"
    /\ init_multiplier = None
    /\ last_seed = NoSeed
    /\ used = first_used
    /\ first_key[2] # ZeroKeyRef
    /\ src = <<>>

\* C10: for every alphabet of one or more symbols and every v >= 0, encode
\* returns a string and decode of that string is v.
C10_CodecRoundTrip ==
    /\ (op = "encode" /\ arg >= 0) => ret.err = "none"
    /\ (op = "decode" /\ src # <<>>) => (ret.err = "none" /\ ret.num = src[1])

\* the bits of the items declared after position i, added up
RECURSIVE BitsAfterRef(_, _)
BitsAfterRef(items, i) ==
    IF i >= Len(items) THEN 0 ELSE items[i + 1].bits + BitsAfterRef(items, i + 1)

\* the defects of the item at position i of a list of items
DefectsRef(items, i) ==
    LET it == items[i]
    IN {w \in {"not_dict", "missing_name", "missing_bits", "name_not_str",
               "bits_not_int", "bits_not_positive", "duplicate_name"} :
           \/ w = "not_dict" /\ ~it.isdict
           \/ w = "missing_name" /\ it.isdict /\ ~it.has_name
           \/ w = "missing_bits" /\ it.isdict /\ ~it.has_bits
           \/ w = "name_not_str" /\ it.isdict /\ it.has_name /\ ~it.name_isstr
           \/ w = "bits_not_int" /\ it.isdict /\ it.has_bits /\ ~it.bits_isint
           \/ w = "bits_not_positive" /\ it.isdict /\ it.has_bits /\ it.bits_isint
                  /\ it.bits <= 0
           \/ w = "duplicate_name" /\ it.isdict /\ it.has_name /\ it.name_isstr
                  /\ \E j \in 1..(i - 1) :
                         items[j].isdict /\ items[j].has_name /\ items[j].name_isstr
                             /\ items[j].name = it.name}

C12_FirstOffendingItem ==
    call.op = "ObfusbitSchema"
    => LET raw == call.raw_schema
           bad == {i \in 1..Len(raw.items) : DefectsRef(raw.items, i) # {}}
           first == CHOOSE i \in bad : \A j \in bad : i <= j
       IN IF ~raw.islist \/ raw.items = <<>>
          THEN /\ out.err = "SchemaValidationError"
               /\ out.index = -1
               /\ out.what = (IF ~raw.islist THEN "not_list" ELSE "empty")
          ELSE IF bad = {}
          THEN out.err = "none" /\ schema_definition = raw.items
          ELSE /\ out.err = "SchemaValidationError"
               /\ out.index = first - 1
               /\ out.what \in DefectsRef(raw.items, first)
               /\ schema_definition = None

\* a well-formed item, then an item that offends only by repeating its name
C12_Witness ==
    /\ call.op = "ObfusbitSchema"
    /\ out.err = "SchemaValidationError"
    /\ out.index = 1
    /\ out.what = "duplicate_name"
    /\ DefectsRef(call.raw_schema.items, 1) = {}

\* the values supply exactly the fields of the schema, each within its width
ValidValuesRef(values) ==
    /\ DOMAIN values = {schema_definition[i].name : i \in 1..Len(schema_definition)}
    /\ \A i \in 1..Len(schema_definition) :
           LET it == schema_definition[i]
           IN 0 <= values[it.name] /\ values[it.name] <= Pow(2, it.bits) - 1

\* the sum over the fields from position i on of value << (bits declared after)
RECURSIVE PackedSumRef(_, _)
PackedSumRef(values, i) ==
    IF i > Len(schema_definition) THEN 0
    ELSE values[schema_definition[i].name] * Pow(2, BitsAfterRef(schema_definition, i))
             + PackedSumRef(values, i + 1)

\* ceil(n / 8)
CeilDiv8Ref(n) == CHOOSE k \in 0..n : 8 * k >= n /\ 8 * (k - 1) < n

\* C13: pack fails with a ValueError whenever values has a key that is no field
\* of the schema.
C13_PackRejectsExtraFields ==
    (call.op = "pack" /\ ~call.obfuscate
        /\ \E k \in DOMAIN call.values : k \notin field_names_set)
    => out.err = "ValueError"

\* C14: on values whose keys are all fields of the schema, pack (without
\* obfuscation) fails exactly when validate_values fails, with the same error
\* type, and a missing-fields error names every absent field.
C14_PackAsValidateValues ==
    (call.op = "pack" /\ ~call.obfuscate /\ DOMAIN call.values \subseteq field_names_set)
    => LET v == validate_values(call.values)
       IN /\ out.err = v.err
          /\ v.err = "ValueError" => out.names = v.names

C16_UnpackPack ==
    (call.op = "unpack" /\ ~call.obfuscated /\ from_values # None)
    => (out.err = "none" /\ out.dict = from_values[1])

\* C17: with an Obfuskey whose multiplier is derived from the default seed,
\* pack(values, obfuscate=True) is a string of key_length symbols and unpack of
\* it (obfuscated=True) returns values; stated for values that supply exactly
\* the fields of the schema.
C17_ObfuscatedRoundTrip ==
    /\ (call.op = "pack" /\ call.obfuscate /\ obfusbit[1].obfuskey
            /\ ValidValuesRef(call.values))
       => (out.err = "none" /\ out.data.t = "str" /\ Len(out.data.v) = key_length)
    /\ (call.op = "unpack" /\ call.obfuscated /\ from_values # None
            /\ init_multiplier = None /\ last_seed = NoSeed)
       => (ValidValuesRef(from_values[1])
              => (out.err = "none" /\ out.dict = from_values[1]))

\* C18: pack_bytes returns ceil(total_bits / 8) bytes, and unpack_bytes of them
\* in the same byte order returns a dict equal to values.
C18_BytesRoundTrip ==
    /\ (call.op = "pack_bytes" /\ out.err = "none")
       => (out.data.t = "bytes" /\ Len(out.data.v) = CeilDiv8Ref(total_bits_val))
    /\ (call.op = "unpack_bytes" /\ from_values # None)
       => (out.err = "none" /\ out.dict = from_values[1])

\* C19: constructing an Obfusbit on an accepted schema fails, with
\* MaximumValueError, exactly when an Obfuskey is given and 2^total_bits - 1 is
\* greater than its maximum_value; so an Obfusbit with an Obfuskey has
\* max_bits <= maximum_value.
C19_CapacityCheck ==
    /\ (call.op = "Obfusbit" /\ validate_schema(call.raw_schema).err = "none")
       => LET need == Pow(2, BitsAfterRef(call.raw_schema.items, 0)) - 1
          IN /\ (out.err = "MaximumValueError") <=> (call.obfuskey /\ need > maximum_value)
             /\ (out.err = "none") <=> ~(call.obfuskey /\ need > maximum_value)
             /\ (out.err = "none") <=> (obfusbit # None)
    /\ (obfusbit # None /\ obfusbit[1].obfuskey) => max_bits_val <= maximum_value

\* a schema that needs exactly maximum_value was accepted
C19_Witness ==
    /\ call.op = "Obfusbit"
    /\ obfusbit # None
    /\ obfusbit[1].obfuskey
    /\ max_bits_val = maximum_value

\* C20: on an Obfusbit without an Obfuskey, pack(values, obfuscate=True) with
\* valid values and unpack(data, obfuscated=True) with a string fail with the
\* configuration ValueError, and no call that asks for obfuscation returns.
C20_NoSilentFallback ==
    (obfusbit # None /\ ~obfusbit[1].obfuskey)
    => /\ (call.op = "pack" /\ call.obfuscate /\ ValidValuesRef(call.values))
          => (out.err = "ValueError" /\ out.what = "no_obfuskey" /\ out.data = None)
       /\ (call.op = "unpack" /\ call.obfuscated /\ call.data.t = "str")
          => (out.err = "ValueError" /\ out.what = "no_obfuskey" /\ out.dict = None)
       /\ (call.op = "pack" /\ call.obfuscate) => out.err # "none"
       /\ (call.op = "unpack" /\ call.obfuscated) => out.err # "none"

\* pack asked to obfuscate valid values of two fields, without an Obfuskey
C20_Witness ==
    /\ call.op = "pack"
    /\ call.obfuscate
    /\ ~obfusbit[1].obfuskey
    /\ Len(schema_definition) = 2
    /\ ValidValuesRef(call.values)
    /\ out.err = "ValueError"

\* C21 as stated: unpack(data, obfuscated=True) fails with TypeError whenever
\* data is not a string, and unpack(data, obfuscated=False) fails with
\* TypeError whenever data is not an integer, with or without an Obfuskey.
C21_Original ==
    call.op = "unpack"
    => /\ (call.obfuscated /\ call.data.t # "str") => out.err = "TypeError"
       /\ (~call.obfuscated /\ call.data.t # "int") => out.err = "TypeError"

\* C21 (amended): unpack(data, obfuscated=False) fails with TypeError whenever
\* data is not an integer, with or without an Obfuskey; unpack(data,
\* obfuscated=True) fails with TypeError whenever data is not a string and an
\* Obfuskey is attached; without an Obfuskey it fails with the configuration
\* ValueError whatever data is.
C21_UnpackTypeErrors ==
    call.op = "unpack"
    => /\ (~call.obfuscated /\ call.data.t # "int")
          => (out.err = "TypeError" /\ out.dict = None)
       /\ (call.obfuscated /\ obfusbit[1].obfuskey /\ call.data.t # "str")
          => (out.err = "TypeError" /\ out.dict = None)
       /\ (call.obfuscated /\ ~obfusbit[1].obfuskey)
          => (out.err = "ValueError" /\ out.what = "no_obfuskey" /\ out.dict = None)

\* an integer handed to unpack(obfuscated=True) of an Obfusbit with an Obfuskey
C21_Witness ==
    /\ call.op = "unpack"
    /\ call.obfuscated
    /\ obfusbit[1].obfuskey
    /\ call.data.t = "int"
    /\ out.err = "TypeError"

\* C22: next_prime(n) returns the smallest prime greater than n, for negative,
\* zero and positive n; next_prime(100) = 101 and next_prime(1000) = 1009.
C22_NextPrime ==
    op = "next_prime"
    => /\ ret.err = "none"
       /\ SmallestPrimeAbove(arg, ret.num)
       /\ arg = 100 => ret.num = 101
       /\ arg = 1000 => ret.num = 1009

\* the stepping went over a candidate of the table that is not prime: 49
C22_Witness ==
    /\ op = "next_prime"
    /\ arg = 47
    /\ ret.num = 53

\* C23: for n below 2,000,000 (n <= 1 and negative n included) is_prime(n) is
\* true exactly when n is prime.
C23_IsPrime ==
    (op = "is_prime" /\ arg < 2000000) => (ret.bool <=> IsPrimeRef(arg))

\* is_prime accepted a prime through trial division and one of the gcd shortcut
C23_Witness ==
    /\ op = "is_prime"
    /\ arg \in {17, 19}
    /\ ret.bool

\* C26: trial_division(n) is True if n is prime and False otherwise.
C26_TrialDivision ==
    op = "trial_division" => (ret.bool <=> IsPrimeRef(arg))

\* C27: for 2 <= n < 2,047,698,921 small_strong_pseudoprime(n) is True if n is
\* prime and False if n is composite.
C27_SmallStrongPseudoprime ==
    (op = "small_strong_pseudoprime" /\ 2 <= arg /\ arg < 2047698921)
    => (ret.bool <=> IsPrimeRef(arg))

\* C25: a constructed ObfusbitSchema is immutable under every caller action,
\* also a mutation of the list given to the constructor or returned by the
\* definition property: in every state total_bits is the sum of the bits over
\* definition, max_bits is 2^total_bits - 1 and every field of definition has
\* its entry in field_info.
C25_SchemaImmutable ==
    schema_definition # None
    => /\ total_bits_val = BitsAfterRef(schema_definition, 0)
       /\ max_bits_val = Pow(2, total_bits_val) - 1
       /\ \A i \in 1..Len(schema_definition) :
              /\ schema_definition[i].name \in DOMAIN field_info
              /\ field_info[schema_definition[i].name].bits = schema_definition[i].bits

\* a and b have no common divisor but 1, for b > 0 and any a # 0
CoprimeAbsRef(a, b) == CoprimeRef(IF a < 0 THEN -a ELSE a, b)

\* C29: whenever the multiplier in use is coprime to B^L (B >= 2), get_value of
\* every string k of L symbols of the alphabet lies in 0..B^L - 1 and get_key
\* of it is k again; get_key of every value in range is such a string,
\* get_value of it is the value again, and no other value has the same key.
C29_MutuallyInverse ==
    (Len(alphabet) >= 2 /\ CoprimeAbsRef(materialized[1], maximum_value + 1))
    => /\ (op = "get_value" /\ argkey \in AllKeys)
          => /\ ret.err = "none"
             /\ ret.num \in AllValues
             /\ get_key(ret.num).err = "none"
             /\ get_key(ret.num).key = argkey
       /\ (op = "get_key" /\ arg \in AllValues)
          => /\ ret.err = "none"
             /\ ret.key \in AllKeys
             /\ get_value(ret.key).err = "none"
             /\ get_value(ret.key).num = arg
             /\ \A v \in AllValues \ {arg} : get_key(v).key # ret.key

\* get_value of a string of two symbols under a derived multiplier that is not
\* its own inverse
C29_Witness ==
    /\ op = "get_value"
    /\ init_multiplier = None
    /\ key_length = 2
    /\ argkey \in AllKeys
    /\ ret.err = "none"
    /\ ret.num > 0
    /\ CoprimeAbsRef(materialized[1], maximum_value + 1)
    /\ (materialized[1] * materialized[1]) % (maximum_value + 1) # 1

\* C30: unpack without obfuscation accepts every integer n, negative n and
\* n > max_bits included; every field of the result lies in 0..2^bits - 1 and
\* pack of the result is n mod 2^total_bits, which is n for n in 0..max_bits.
C30_UnpackAnyInteger ==
    (call.op = "unpack" /\ ~call.obfuscated /\ call.data.t = "int")
    => LET n == call.data.v[1]
       IN /\ out.err = "none"
          /\ DOMAIN out.dict = field_names_set
          /\ \A i \in 1..Len(schema_definition) :
                 LET it == schema_definition[i]
                 IN 0 <= out.dict[it.name] /\ out.dict[it.name] <= Pow(2, it.bits) - 1
          /\ pack(out.dict, FALSE).err = "none"
          /\ pack(out.dict, FALSE).data = IntData(n % Pow(2, total_bits_val))
          /\ (0 <= n /\ n <= max_bits_val) => pack(out.dict, FALSE).data = IntData(n)

\* a negative integer below -1 unpacked by a schema of two fields
C30_Witness ==
    /\ call.op = "unpack"
    /\ ~call.obfuscated
    /\ call.data.t = "int"
    /\ call.data.v[1] < -1
    /\ Len(schema_definition) = 2
    /\ out.err = "none"

\* C24: when the callers only read (multiplier, get_key, get_value) and the
\* multiplier was not materialized when they started, __generate_multiplier
\* runs at most once and every caller that returned read the same multiplier.
C24_SingleDerivation ==
    (\A t \in Threads : threads[t].op # "set_prime_multiplier")
    => /\ derivations <= 1
       /\ \A t, u \in Threads :
              (threads[t].pc = "done" /\ threads[u].pc = "done")
              => threads[t].ret.mult = threads[u].ret.mult

\* C28: under every interleaving of the readers with set_prime_multiplier, no
\* call that returned read an absent multiplier, and once every call has
\* returned a cached multiplier is the prime derived from the stored seed.
C28_NeverCorrupted ==
    /\ \A t \in Threads :
           (threads[t].pc = "done" /\ threads[t].op \in ThreadReaders)
           => threads[t].ret.mult # None
    /\ (AllReturned /\ multiplier # None) => multiplier = <<generate_multiplier>>

====
